---------------------------- MODULE Spec2Model ----------------------------
(***************************************************************************)
(* A model of the instrumentation core of libafl_qemu (helper.rs) and of   *)
(* the 8-bit counter registry of libafl_targets (sancov_8bit.rs):          *)
(*   - the helper chain, nested pairs (Head, Tail) ending in (), and its   *)
(*     four lifecycle dispatch operations;                                  *)
(*   - the filter lists (AllowList / DenyList / None) over the two         *)
(*     concrete filters, Vec<Range<GuestAddr>> and HashSet<GuestPhysAddr>; *)
(*   - the filter holder and update_filter, which flushes the JIT;         *)
(*   - COUNTERS_MAPS and __sanitizer_cov_8bit_counters_init;               *)
(*   - hash_me, on 64-bit words kept as eight bytes, least significant     *)
(*     first, so that every product wraps modulo 2^64.                     *)
(***************************************************************************)
EXTENDS Integers, Sequences, FiniteSets

VARIABLES
    decl,           \* the helpers of the chain, in declaration order
    chain,          \* the chain value: nested pairs <<head, tail>>, () is <<>>
    sideEffects,    \* <chain type as QemuHelperTuple>::HOOKS_DO_SIDE_EFFECTS
    lastOp,         \* the chain operation called last ("none" before any)
    trace,          \* the callbacks that call invoked, in order: <<callback, helper>>
    post,           \* the last post_exec_all call: the exit kind given and left, and
                    \* what each helper found in exit_kind and in the observers
    COUNTERS_MAPS,  \* the registry: a sequence of slices [base, len]
    regCalls,       \* the registration calls made so far: [start, stop]
    race,           \* two registration calls in flight at once: the Vec's buffer and
                    \* length, and each caller's position in its push
    filter,         \* the filter the holder owns
    flushes,        \* flush_jit notifications the executor has received
    updates,        \* update_filter calls made so far
    reads,          \* calls of filter(), filter_mut() and allowed() made so far
    lastSame,       \* the last update_filter call passed a filter equal to the old one
    answer,         \* what the holder's filter last answered ("none" before any)
    lastUpdate,     \* the last update_filter call: the filter given, the filter in
                    \* place when flush_jit ran, and whether filter_mut wrote since
    query,          \* one evaluation of a filter and of the three lists around it
    hashQ           \* the last two calls of hash_me, latest first: [x, out]

chainVars == <<decl, chain, sideEffects, lastOp, trace, post>>
regVars == <<COUNTERS_MAPS, regCalls>>
holderVars == <<filter, flushes, updates, reads, lastSame, answer, lastUpdate>>
vars == <<decl, chain, sideEffects, lastOp, trace, post, COUNTERS_MAPS, regCalls,
          filter, flushes, updates, reads, lastSame, answer, lastUpdate, query, hashQ, race>>

-----------------------------------------------------------------------------
(* Bounds of the model.                                                    *)

\* the longest helper chain
MaxChain == 3
\* pointers handed to the registration entry point lie in 0..MaxPtr
MaxPtr == 2
\* the most registrations made
MaxRegs == 4
\* guest addresses and range ends lie in 0..MaxAddr
MaxAddr == 3
\* the longest list of address ranges
MaxRanges == 2
\* physical page identifiers lie in 0..MaxPageId
MaxPageId == 2
\* the most update_filter calls made on the holder
MaxUpdates == 2
\* the most filter(), filter_mut() and allowed() calls made on the holder
MaxReads == 2
\* hash_me is called on the words whose lowest byte is in 0..MaxHashLow
MaxHashLow == 7
\* the longest chain and the most registrations where both are interleaved
MaxMixedChain == 2
MaxMixedRegs == 2

-----------------------------------------------------------------------------
(* The helper contract and the helper chain.                               *)

\* Three helper types. Each records its callbacks in the trace. "A" and "C"
\* override HOOKS_DO_SIDE_EFFECTS, "B" keeps the trait's default.
Helpers == {"A", "B", "C"}

\* What a helper's impl block says about HOOKS_DO_SIDE_EFFECTS.
Override(h) == CASE h = "A" -> "false" [] h = "B" -> "default" [] h = "C" -> "true"

\* QemuHelper::HOOKS_DO_SIDE_EFFECTS: the trait's default is true.
HelperSideEffects(h) == IF Override(h) = "default" THEN TRUE ELSE Override(h) = "true"

\* The unit type (), the end of every chain.
Unit == <<>>

\* The chain a declaration d = <<H1, ..., Hn>> stands for: (H1, (H2, (..., (Hn, ())))).
RECURSIVE TupleList(_)
TupleList(d) == IF d = <<>> THEN Unit ELSE <<Head(d), TupleList(Tail(d))>>

\* The first three callbacks of one helper: each leaves its mark on the trace.
init_hooks(h, tr) == Append(tr, <<"init_hooks", h>>)
first_exec(h, tr) == Append(tr, <<"first_exec", h>>)
pre_exec(h, tr) == Append(tr, <<"pre_exec", h>>)

\* ExitKind, as far as the helpers here tell its values apart.
ExitKinds == {"Ok", "Crash", "Timeout"}

\* What post_exec of each helper does with *exit_kind: "A" turns Ok into Crash,
\* "B" leaves it alone, "C" sets Timeout whatever it finds.
PostExecKind(h, k) ==
    CASE h = "A" -> (IF k = "Ok" THEN "Crash" ELSE k)
      [] h = "B" -> k
      [] h = "C" -> "Timeout"

\* What a post_exec_all call works on: the trace, and the two places behind the
\* &mut references, observers and exit_kind; seen is what each helper found there.
PostContext(k) == [trace |-> <<>>, seen |-> <<>>, exit_kind |-> k, observers |-> {}]

\* post_exec(emulator, input, observers, exit_kind) of one helper: it notes what it
\* finds, adds its mark to the observers and rewrites *exit_kind.
post_exec(h, c) ==
    [trace |-> Append(c.trace, <<"post_exec", h>>),
     seen |-> Append(c.seen, [exit_kind |-> c.exit_kind, observers |-> c.observers]),
     exit_kind |-> PostExecKind(h, c.exit_kind),
     observers |-> c.observers \cup {h}]

\* a chain flag that is the AND of the members' flags
RECURSIVE SideEffectsAnd(_)
SideEffectsAnd(t) ==
    IF t = Unit THEN FALSE ELSE HelperSideEffects(t[1]) /\ SideEffectsAnd(t[2])

\* HOOKS_DO_SIDE_EFFECTS of a chain: false for (), Head || Tail for a pair.
RECURSIVE HOOKS_DO_SIDE_EFFECTS(_)
HOOKS_DO_SIDE_EFFECTS(t) ==
    IF t = Unit THEN FALSE ELSE HelperSideEffects(t[1]) \/ HOOKS_DO_SIDE_EFFECTS(t[2])

\* init_hooks_all: nothing for (); self.0.init_hooks, then self.1.init_hooks_all.
RECURSIVE init_hooks_all(_, _)
init_hooks_all(t, tr) ==
    IF t = Unit THEN tr ELSE init_hooks_all(t[2], init_hooks(t[1], tr))

RECURSIVE first_exec_all(_, _)
first_exec_all(t, tr) ==
    IF t = Unit THEN tr ELSE first_exec_all(t[2], first_exec(t[1], tr))

\* a dispatch that runs the tail before the head
RECURSIVE pre_exec_all_tail_first(_, _)
pre_exec_all_tail_first(t, tr) ==
    IF t = Unit THEN tr ELSE pre_exec(t[1], pre_exec_all_tail_first(t[2], tr))

RECURSIVE pre_exec_all(_, _)
pre_exec_all(t, tr) ==
    IF t = Unit THEN tr ELSE pre_exec_all(t[2], pre_exec(t[1], tr))

\* a dispatch that hands the tail the exit kind the call started with
RECURSIVE post_exec_all_by_value(_, _)
post_exec_all_by_value(t, c) ==
    IF t = Unit THEN c
    ELSE post_exec_all_by_value(t[2], [post_exec(t[1], c) EXCEPT !.exit_kind = c.exit_kind])

\* post_exec_all: self.0.post_exec and then self.1.post_exec_all, on the same
\* observers and exit_kind.
RECURSIVE post_exec_all(_, _)
post_exec_all(t, c) ==
    IF t = Unit THEN c ELSE post_exec_all(t[2], post_exec(t[1], c))

\* No post_exec_all call yet.
NoPostCall == [called |-> FALSE, given |-> "Ok", left |-> "Ok", seen |-> <<>>]

\* Every declaration of at most MaxChain helpers (a helper type may repeat).
Declarations == UNION {[1..n -> Helpers] : n \in 0..MaxChain}

InitChain ==
    /\ decl \in Declarations
    /\ chain = TupleList(decl)
    /\ sideEffects = HOOKS_DO_SIDE_EFFECTS(chain)
    /\ lastOp = "none"
    /\ trace = <<>>
    /\ post = NoPostCall

\* One call of a chain operation by the executor; the trace is that call's.
InitHooksAll ==
    /\ lastOp' = "init_hooks_all"
    /\ trace' = init_hooks_all(chain, <<>>)
    /\ UNCHANGED <<decl, chain, sideEffects, post>>

FirstExecAll ==
    /\ lastOp' = "first_exec_all"
    /\ trace' = first_exec_all(chain, <<>>)
    /\ UNCHANGED <<decl, chain, sideEffects, post>>

PreExecAll ==
    /\ lastOp' = "pre_exec_all"
    /\ trace' = pre_exec_all(chain, <<>>)
    /\ UNCHANGED <<decl, chain, sideEffects, post>>

\* The executor passes the exit kind of the run that just ended.
PostExecAllOn(k) ==
    LET c == post_exec_all(chain, PostContext(k)) IN
    /\ lastOp' = "post_exec_all"
    /\ trace' = c.trace
    /\ post' = [called |-> TRUE, given |-> k, left |-> c.exit_kind, seen |-> c.seen]
    /\ UNCHANGED <<decl, chain, sideEffects>>

PostExecAll == \E k \in ExitKinds : PostExecAllOn(k)

-----------------------------------------------------------------------------
(* The coverage counter registry.                                          *)

\* from_raw_parts_mut(start, stop.offset_from(start) as usize)
Slice(start, stop) == [base |-> start, len |-> stop - start]

\* a registration that drops an empty or an already registered span
PushUnlessKnown(maps, start, stop) ==
    IF start = stop \/ \E i \in 1..Len(maps) : maps[i] = Slice(start, stop)
    THEN maps
    ELSE Append(maps, Slice(start, stop))

\* a registration that puts the new slice first
PushFront(maps, start, stop) == <<Slice(start, stop)>> \o maps

\* COUNTERS_MAPS.push(...)
Push(maps, start, stop) == Append(maps, Slice(start, stop))

InitRegistry ==
    /\ COUNTERS_MAPS = <<>>
    /\ regCalls = <<>>

\* __sanitizer_cov_8bit_counters_init(start, stop). The caller's contract is a
\* span of one allocation, so stop is never below start.
CountersInit(start, stop) ==
    /\ Len(regCalls) < MaxRegs
    /\ start <= stop
    /\ COUNTERS_MAPS' = Push(COUNTERS_MAPS, start, stop)
    /\ regCalls' = Append(regCalls, [start |-> start, stop |-> stop])

Register == \E start \in 0..MaxPtr, stop \in 0..MaxPtr : CountersInit(start, stop)

-----------------------------------------------------------------------------
(* Two registrations at once. COUNTERS_MAPS is a static mut Vec and the    *)
(* entry point takes no lock, so two callers' pushes interleave step by    *)
(* step. A push reads the length, writes the slice (a pointer and a        *)
(* length, two words) into the slot behind the last element, and stores    *)
(* the length plus one. The buffer is taken to have room for both slices.  *)

Callers == {1, 2}

\* A slot of the buffer nothing was written to.
Unwritten == [base |-> -1, len |-> -1]

\* The spans with start <= stop.
Spans == {sp \in [start : 0..MaxPtr, stop : 0..MaxPtr] : sp.start <= sp.stop}

\* No caller has entered; caller c will register span c.
InitRace ==
    race \in [buf : {[i \in 1..2 |-> Unwritten]}, len : {0}, overlapped : {FALSE},
              t : [Callers -> [pc : {"idle"}, span : Spans, l : {0}]]]

RaceAtRest ==
    race = [buf |-> [i \in 1..2 |-> Unwritten], len |-> 0, overlapped |-> FALSE,
            t |-> [c \in Callers |-> [pc |-> "idle", span |-> [start |-> 0, stop |-> 0], l |-> 0]]]

\* Some other caller is inside its push.
OtherInside(c) == \E o \in Callers \ {c} : race.t[o].pc \notin {"idle", "done"}

\* a push that takes the length for zero
ReadLenAsZero(c) ==
    /\ race.t[c].pc = "idle"
    /\ race' = [race EXCEPT !.t[c].pc = "read", !.t[c].l = 0,
                            !.overlapped = @ \/ OtherInside(c)]

\* The call enters push and reads self.len.
ReadLen(c) ==
    /\ race.t[c].pc = "idle"
    /\ race' = [race EXCEPT !.t[c].pc = "read", !.t[c].l = race.len,
                            !.overlapped = @ \/ OtherInside(c)]

\* ptr::write(end, slice), first word: the slice's pointer.
WriteBase(c) ==
    /\ race.t[c].pc = "read"
    /\ race' = [race EXCEPT !.t[c].pc = "base",
                            !.buf[race.t[c].l + 1].base = Slice(race.t[c].span.start, race.t[c].span.stop).base]

\* ptr::write(end, slice), second word: the slice's length.
WriteLen(c) ==
    /\ race.t[c].pc = "base"
    /\ race' = [race EXCEPT !.t[c].pc = "written",
                            !.buf[race.t[c].l + 1].len = Slice(race.t[c].span.start, race.t[c].span.stop).len]

\* self.len = len + 1, and the call returns.
SetLen(c) ==
    /\ race.t[c].pc = "written"
    /\ race' = [race EXCEPT !.t[c].pc = "done", !.len = race.t[c].l + 1]

\* What a reader of COUNTERS_MAPS finds: the first len slots.
Registered == [i \in 1..race.len |-> race.buf[i]]

-----------------------------------------------------------------------------
(* The filters.                                                            *)

Addrs == 0..MaxAddr
PageIds == 0..MaxPageId

\* Range<GuestAddr>: any pair of bounds, also an empty or an inverted one.
Ranges == [start : Addrs, end : Addrs]

\* Vec<Range<GuestAddr>>
RangeLists == UNION {[1..n -> Ranges] : n \in 0..MaxRanges}

\* HashSet<GuestPhysAddr>
PageSets == SUBSET PageIds

\* Option<GuestPhysAddr>: None is <<>>, Some(id) is <<id>>.
NoPage == <<>>
SomePage(id) == <<id>>
PagingParams == {NoPage} \cup {SomePage(id) : id \in PageIds}

\* The three variants of QemuFilterList<T>.
AllowList(f) == [tag |-> "AllowList", inner |-> f]
DenyList(f) == [tag |-> "DenyList", inner |-> f]
NoList == [tag |-> "None"]

\* QemuInstrumentationPagingFilter
PagingFilters == {AllowList(s) : s \in PageSets} \cup {DenyList(s) : s \in PageSets} \cup {NoList}

\* a range that takes its end in
RangeContainsInclusive(rng, addr) == rng.start <= addr /\ addr <= rng.end

\* Range::contains: start <= addr && addr < end
RangeContains(rng, addr) == rng.start <= addr /\ addr < rng.end

\* The loop of <Vec<Range<GuestAddr>> as IsFilter>::allowed from its i-th range on.
RECURSIVE VecAllowedFrom(_, _, _)
VecAllowedFrom(v, i, addr) ==
    IF i > Len(v) THEN FALSE
    ELSE IF RangeContains(v[i], addr) THEN TRUE
    ELSE VecAllowedFrom(v, i + 1, addr)

\* a range filter that takes an empty list for "no restriction"
VecAllowedEmptyAllows(v, addr) == v = <<>> \/ VecAllowedFrom(v, 1, addr)

\* <Vec<Range<GuestAddr>> as IsFilter>::allowed
VecAllowed(v, addr) == VecAllowedFrom(v, 1, addr)

\* a set filter that lets an unresolved page through
HashSetAllowedLenient(set, paging_id) == paging_id = NoPage \/ paging_id[1] \in set

\* a set filter that allows every resolved page
HashSetAllowedAnySome(set, paging_id) == paging_id # NoPage

\* <HashSet<GuestPhysAddr, H> as IsFilter>::allowed:
\* paging_id.is_some_and(|pid| self.contains(&pid))
HashSetAllowed(set, paging_id) == paging_id # NoPage /\ paging_id[1] \in set

\* T::allowed for the two inner filter types
InnerAllowed(kind, f, p) ==
    IF kind = "addr" THEN VecAllowed(f, p) ELSE HashSetAllowed(f, p)

\* a filter list whose deny list answers as its inner filter does
ListAllowedNoNegation(kind, fl, p) ==
    CASE fl.tag = "AllowList" -> InnerAllowed(kind, fl.inner, p)
      [] fl.tag = "DenyList" -> InnerAllowed(kind, fl.inner, p)
      [] fl.tag = "None" -> TRUE

\* <QemuFilterList<T> as IsFilter>::allowed
ListAllowed(kind, fl, p) ==
    CASE fl.tag = "AllowList" -> InnerAllowed(kind, fl.inner, p)
      [] fl.tag = "DenyList" -> ~InnerAllowed(kind, fl.inner, p)
      [] fl.tag = "None" -> TRUE

\* The inputs of one evaluation: an inner filter and a parameter of its type.
AddrQueries == [kind : {"addr"}, ranges : RangeLists, addr : Addrs]
PageQueries == [kind : {"page"}, set : PageSets, paging_id : PagingParams]

NoAnswers == [done |-> FALSE, inner |-> FALSE, allow |-> FALSE, deny |-> FALSE, none |-> FALSE]

\* The answers of the filter itself and of AllowList, DenyList and None around it.
Answers(kind, f, p) ==
    [done |-> TRUE,
     inner |-> InnerAllowed(kind, f, p),
     allow |-> ListAllowed(kind, AllowList(f), p),
     deny |-> ListAllowed(kind, DenyList(f), p),
     none |-> ListAllowed(kind, NoList, p)]

InitQuery ==
    /\ query \in [in : AddrQueries \cup PageQueries, out : {NoAnswers}]

\* allowed(addr) of an address-range filter and of the three lists around it.
EvaluateAddr ==
    /\ ~query.out.done
    /\ query.in.kind = "addr"
    /\ query' = [query EXCEPT !.out = Answers("addr", query.in.ranges, query.in.addr)]

\* allowed(paging_id) of a page set and of the three lists around it.
EvaluatePage ==
    /\ ~query.out.done
    /\ query.in.kind = "page"
    /\ query' = [query EXCEPT !.out = Answers("page", query.in.set, query.in.paging_id)]

-----------------------------------------------------------------------------
(* The filter holder (HasInstrumentationFilter), here of a paging filter.  *)

Bool(b) == IF b THEN "true" ELSE "false"

\* No update_filter call yet.
NoUpdate == [made |-> FALSE, given |-> NoList, flushed |-> NoList, written |-> FALSE]

InitHolder ==
    /\ filter \in PagingFilters
    /\ flushes = 0
    /\ updates = 0
    /\ reads = 0
    /\ lastSame = FALSE
    /\ answer = "none"
    /\ lastUpdate = NoUpdate

\* an update_filter that spares the flush when the filter does not change
UpdateFilterIfChanged(f) ==
    /\ updates < MaxUpdates
    /\ filter' = f
    /\ flushes' = IF f = filter THEN flushes ELSE flushes + 1
    /\ updates' = updates + 1
    /\ lastSame' = (f = filter)
    /\ lastUpdate' = [made |-> TRUE, given |-> f, flushed |-> f, written |-> FALSE]
    /\ UNCHANGED <<reads, answer>>

\* an update_filter that notifies the executor before it stores the filter
UpdateFilterFlushFirst(f) ==
    /\ updates < MaxUpdates
    /\ flushes' = flushes + 1
    /\ lastUpdate' = [made |-> TRUE, given |-> f, flushed |-> filter, written |-> FALSE]
    /\ filter' = f
    /\ updates' = updates + 1
    /\ lastSame' = (f = filter)
    /\ UNCHANGED <<reads, answer>>

\* update_filter(filter, emu): *self.filter_mut() = filter; emu.flush_jit();
\* flush_jit runs after the store, so the filter in place when it runs is filter'.
UpdateFilter(f) ==
    /\ updates < MaxUpdates
    /\ filter' = f
    /\ flushes' = flushes + 1
    /\ lastUpdate' = [made |-> TRUE, given |-> f, flushed |-> filter', written |-> FALSE]
    /\ updates' = updates + 1
    /\ lastSame' = (f = filter)
    /\ UNCHANGED <<reads, answer>>

\* filter(): a shared reference to the filter.
Filter ==
    /\ reads < MaxReads
    /\ reads' = reads + 1
    /\ UNCHANGED <<filter, flushes, updates, lastSame, answer, lastUpdate>>

\* filter_mut(): a mutable reference; the caller may write any filter through it.
FilterMut(f) ==
    /\ reads < MaxReads
    /\ reads' = reads + 1
    /\ filter' = f
    /\ lastUpdate' = [lastUpdate EXCEPT !.written = TRUE]
    /\ UNCHANGED <<flushes, updates, lastSame, answer>>

\* self.filter().allowed(p)
Allowed(p) ==
    /\ reads < MaxReads
    /\ reads' = reads + 1
    /\ answer' = Bool(ListAllowed("page", filter, p))
    /\ UNCHANGED <<filter, flushes, updates, lastSame, lastUpdate>>

Update == \E f \in PagingFilters : UpdateFilter(f)
WriteThrough == \E f \in PagingFilters : FilterMut(f)
Ask == \E p \in PagingParams : Allowed(p)

-----------------------------------------------------------------------------
(* hash_me. A u64 is its eight bytes, least significant first.             *)

\* the multiplier of the first two rounds, 0x45d9f3b
Multiplier == 73244475
\* the shift of every round
ShiftBits == 16

\* The k lowest bytes of n.
RECURSIVE Bytes(_, _)
Bytes(n, k) == IF k = 0 THEN <<>> ELSE <<n % 256>> \o Bytes(n \div 256, k - 1)

\* The u64 of a number below 2^31.
U64(n) == Bytes(n, 8)

\* The inputs of the model: lowest byte low, highest byte high, zero between.
Word(low, high) == [i \in 1..8 |-> IF i = 1 THEN low ELSE IF i = 8 THEN high ELSE 0]
HashInputs == {Word(low, high) : low \in 0..MaxHashLow, high \in {0, 255}}

\* a shift by twice the bits
ShrTwice(x) ==
    [i \in 1..8 |-> IF i + (ShiftBits \div 4) <= 8 THEN x[i + (ShiftBits \div 4)] ELSE 0]

\* x.overflowing_shr(16).0: the shift is below 64, so it is x >> 16.
OverflowingShr(x) ==
    [i \in 1..8 |-> IF i + (ShiftBits \div 8) <= 8 THEN x[i + (ShiftBits \div 8)] ELSE 0]

\* a ^ b of two values of n bits
RECURSIVE XorBits(_, _, _)
XorBits(a, b, n) ==
    IF n = 0 THEN 0
    ELSE ((a + b) % 2) + 2 * XorBits(a \div 2, b \div 2, n - 1)

\* a ^ b of two u64
Xor(a, b) == [i \in 1..8 |-> XorBits(a[i], b[i], 8)]

\* Column k of the long product a * b: the sum of a[j] * b[k + 1 - j] for j from i down.
RECURSIVE Column(_, _, _, _)
Column(a, b, k, i) ==
    IF i = 0 \/ k + 1 - i > 8 THEN 0
    ELSE a[i] * b[k + 1 - i] + Column(a, b, k, i - 1)

\* The bytes k..8 of a * b; what the product carries beyond byte 8 is dropped.
RECURSIVE ProductFrom(_, _, _, _)
ProductFrom(a, b, k, carry) ==
    IF k > 8 THEN <<>>
    ELSE LET s == carry + Column(a, b, k, k)
         IN <<s % 256>> \o ProductFrom(a, b, k + 1, s \div 256)

\* a.overflowing_mul(b).0: the product modulo 2^64
OverflowingMul(a, b) == ProductFrom(a, b, 1, 0)

\* One xorshift-multiply round: (x.overflowing_shr(16).0 ^ x).overflowing_mul(0x45d9f3b).0
MulRound(x) == OverflowingMul(Xor(OverflowingShr(x), x), U64(Multiplier))

\* The last round: (x.overflowing_shr(16).0 ^ x) ^ x
LastRound(x) == Xor(Xor(OverflowingShr(x), x), x)

\* hash_me(x)
hash_me(x) == LastRound(MulRound(MulRound(x)))

InitHash == hashQ = <<>>

\* One call of hash_me; the model remembers the last two calls.
HashMe(x) ==
    hashQ' = <<[x |-> x, out |-> hash_me(x)]>> \o SubSeq(hashQ, 1, IF Len(hashQ) > 0 THEN 1 ELSE 0)

Hash == \E x \in HashInputs : HashMe(x)

-----------------------------------------------------------------------------
(* The specifications: one per component. The components share no state,   *)
(* so each is explored with the others at rest.                            *)

ChainAtRest ==
    /\ decl = <<>>
    /\ chain = Unit
    /\ sideEffects = FALSE
    /\ lastOp = "none"
    /\ trace = <<>>
    /\ post = NoPostCall

HolderAtRest ==
    /\ filter = NoList
    /\ flushes = 0
    /\ updates = 0
    /\ reads = 0
    /\ lastSame = FALSE
    /\ answer = "none"
    /\ lastUpdate = NoUpdate

QueryAtRest ==
    query = [in |-> [kind |-> "page", set |-> {}, paging_id |-> NoPage], out |-> NoAnswers]

\* The helper chain under the executor's lifecycle calls.
StartChain == InitChain /\ InitRegistry /\ HolderAtRest /\ QueryAtRest /\ InitHash /\ RaceAtRest

NextChain ==
    \/ InitHooksAll /\ UNCHANGED <<regVars, holderVars, query, hashQ, race>>
    \/ FirstExecAll /\ UNCHANGED <<regVars, holderVars, query, hashQ, race>>
    \/ PreExecAll /\ UNCHANGED <<regVars, holderVars, query, hashQ, race>>
    \/ PostExecAll /\ UNCHANGED <<regVars, holderVars, query, hashQ, race>>

SpecChain == StartChain /\ [][NextChain]_vars

\* The registry under the guest modules' registrations.
StartRegistry == ChainAtRest /\ InitRegistry /\ HolderAtRest /\ QueryAtRest /\ InitHash /\ RaceAtRest

NextRegistry == Register /\ UNCHANGED <<chainVars, holderVars, query, hashQ, race>>

SpecRegistry == StartRegistry /\ [][NextRegistry]_vars

\* One evaluation of a filter.
StartQuery == ChainAtRest /\ InitRegistry /\ HolderAtRest /\ InitQuery /\ InitHash /\ RaceAtRest

NextQuery ==
    \/ EvaluateAddr /\ UNCHANGED <<chainVars, regVars, holderVars, hashQ, race>>
    \/ EvaluatePage /\ UNCHANGED <<chainVars, regVars, holderVars, hashQ, race>>

SpecQuery == StartQuery /\ [][NextQuery]_vars

\* The filter holder under its callers.
StartHolder == ChainAtRest /\ InitRegistry /\ InitHolder /\ QueryAtRest /\ InitHash /\ RaceAtRest

NextHolder ==
    \/ Update /\ UNCHANGED <<chainVars, regVars, query, hashQ, race>>
    \/ Filter /\ UNCHANGED <<chainVars, regVars, query, hashQ, race>>
    \/ WriteThrough /\ UNCHANGED <<chainVars, regVars, query, hashQ, race>>
    \/ Ask /\ UNCHANGED <<chainVars, regVars, query, hashQ, race>>

SpecHolder == StartHolder /\ [][NextHolder]_vars

\* hash_me under its callers.
StartHash == ChainAtRest /\ InitRegistry /\ HolderAtRest /\ QueryAtRest /\ InitHash /\ RaceAtRest

NextHash == Hash /\ UNCHANGED <<chainVars, regVars, holderVars, query, race>>

SpecHash == StartHash /\ [][NextHash]_vars

\* The registry and the helper chain together: registrations by guest modules
\* interleaved with the executor's lifecycle calls.
StartMixed ==
    /\ InitChain
    /\ Len(decl) <= MaxMixedChain
    /\ InitRegistry /\ HolderAtRest /\ QueryAtRest /\ InitHash /\ RaceAtRest

\* a lifecycle call that resets the coverage maps
LifecycleCallResetting ==
    /\ InitHooksAll \/ FirstExecAll \/ PreExecAll \/ PostExecAll
    /\ COUNTERS_MAPS' = <<>>
    /\ UNCHANGED regCalls

\* A lifecycle call as the registry sees it: the four chain operations reach
\* their helpers and their own arguments only, never COUNTERS_MAPS.
LifecycleCall ==
    /\ InitHooksAll \/ FirstExecAll \/ PreExecAll \/ PostExecAll
    /\ UNCHANGED regVars

RegisterMixed == Len(regCalls) < MaxMixedRegs /\ Register

NextMixed ==
    \/ LifecycleCall /\ UNCHANGED <<holderVars, query, hashQ, race>>
    \/ RegisterMixed /\ UNCHANGED <<chainVars, holderVars, query, hashQ, race>>

SpecMixed == StartMixed /\ [][NextMixed]_vars

\* Two registration calls whose steps interleave freely.
StartRace == ChainAtRest /\ InitRegistry /\ HolderAtRest /\ QueryAtRest /\ InitHash /\ InitRace

NextRace ==
    \/ (\E c \in Callers : ReadLen(c)) /\ UNCHANGED <<chainVars, regVars, holderVars, query, hashQ>>
    \/ (\E c \in Callers : WriteBase(c)) /\ UNCHANGED <<chainVars, regVars, holderVars, query, hashQ>>
    \/ (\E c \in Callers : WriteLen(c)) /\ UNCHANGED <<chainVars, regVars, holderVars, query, hashQ>>
    \/ (\E c \in Callers : SetLen(c)) /\ UNCHANGED <<chainVars, regVars, holderVars, query, hashQ>>

SpecRace == StartRace /\ [][NextRace]_vars

-----------------------------------------------------------------------------
(* The claims.                                                             *)

\* The callback a chain operation forwards to.
CallbackOf(op) ==
    CASE op = "init_hooks_all" -> "init_hooks"
      [] op = "first_exec_all" -> "first_exec"
      [] op = "pre_exec_all" -> "pre_exec"
      [] op = "post_exec_all" -> "post_exec"

\* C1: one call of any of the four chain operations invokes the matching callback
\* of every member exactly once, in declaration order H1, ..., Hn; on the empty
\* chain it invokes nothing.
C1_DispatchInDeclarationOrder ==
    lastOp # "none" =>
        trace = [i \in 1..Len(decl) |-> <<CallbackOf(lastOp), decl[i]>>]

\* C1 happens: pre_exec_all on (A, (B, (C, ()))) has called A, B, C.
C1_Witness ==
    /\ chain = <<"A", <<"B", <<"C", <<>> >> >> >>
    /\ lastOp = "pre_exec_all"
    /\ trace = <<<<"pre_exec", "A">>, <<"pre_exec", "B">>, <<"pre_exec", "C">>>>

\* C2: AllowList(F).allowed(p) is F.allowed(p), DenyList(F).allowed(p) is its
\* negation, and None.allowed(p) is true, for both inner filter types.
C2_ListSemantics ==
    query.out.done =>
        /\ query.out.allow = query.out.inner
        /\ query.out.deny = ~query.out.inner
        /\ query.out.none = TRUE

\* C2 happens: an address the inner range filter allows, which DenyList rejects.
C2_Witness ==
    /\ query.out.done
    /\ query.in.kind = "addr"
    /\ query.in.ranges # <<>>
    /\ query.out.inner
    /\ ~query.out.deny

\* C3 as stated: with no page identifier every paging filter rejects, whichever
\* the variant.
C3_EveryVariantRejectsNoPage ==
    (query.out.done /\ query.in.kind = "page" /\ query.in.paging_id = NoPage) =>
        (~query.out.allow /\ ~query.out.deny /\ ~query.out.none)

\* C3, amended: with no page identifier AllowList(set) rejects for every set,
\* while DenyList(set) and None allow.
C3_OnlyAllowListRejectsNoPage ==
    (query.out.done /\ query.in.kind = "page" /\ query.in.paging_id = NoPage) =>
        (~query.out.allow /\ query.out.deny /\ query.out.none)

\* C3 happens: a non-empty page set was asked about no page.
C3_Witness ==
    /\ query.out.done
    /\ query.in.kind = "page"
    /\ query.in.paging_id = NoPage
    /\ query.in.set = {0, 1}
    /\ query.out.deny

\* C4: the executor has received exactly one flush_jit per update_filter call made,
\* whatever other holder operations were called in between.
C4_OneFlushPerUpdate == flushes = updates

\* C4 happens: two updates, the last with the filter already in place, and other
\* holder operations in between.
C4_Witness ==
    /\ updates = 2
    /\ lastSame
    /\ reads > 0
    /\ answer # "none"
    /\ flushes = 2

\* C5: the registry holds one entry per registration call, in call order, the
\* i-th with base start_i and length stop_i - start_i.
C5_RegistryMirrorsCalls ==
    /\ Len(COUNTERS_MAPS) = Len(regCalls)
    /\ \A i \in 1..Len(regCalls) :
        /\ COUNTERS_MAPS[i].base = regCalls[i].start
        /\ COUNTERS_MAPS[i].len = regCalls[i].stop - regCalls[i].start

\* C5 happens: spans (0, 1) and then (0, 2) are registered, with lengths 1 and 2.
C5_Witness ==
    /\ regCalls = <<[start |-> 0, stop |-> 1], [start |-> 0, stop |-> 2]>>
    /\ COUNTERS_MAPS = <<[base |-> 0, len |-> 1], [base |-> 0, len |-> 2]>>

\* C6: the range filter allows an address exactly when some range of the list has
\* start <= addr < end.
C6_HalfOpenRanges ==
    (query.out.done /\ query.in.kind = "addr") =>
        query.out.inner =
            (\E i \in 1..Len(query.in.ranges) :
                /\ query.in.ranges[i].start <= query.in.addr
                /\ query.in.addr < query.in.ranges[i].end)

\* C6 happens: the address is the end of the first range and below the second.
C6_Witness ==
    /\ query.out.done
    /\ query.in.kind = "addr"
    /\ query.in.ranges = <<[start |-> 0, end |-> 1], [start |-> 2, end |-> 3]>>
    /\ query.in.addr = 1
    /\ ~query.out.inner

\* C7: the page set allows Some(id) exactly when id is in the set, and never None.
C7_PageSetMembership ==
    (query.out.done /\ query.in.kind = "page") =>
        query.out.inner =
            (\E id \in PageIds : query.in.paging_id = SomePage(id) /\ id \in query.in.set)

\* C7 happens: the set {0, 2} was asked about page 1 and rejected it.
C7_Witness ==
    /\ query.out.done
    /\ query.in.kind = "page"
    /\ query.in.set = {0, 2}
    /\ query.in.paging_id = SomePage(1)
    /\ ~query.out.inner

\* C8: the chain's HOOKS_DO_SIDE_EFFECTS is true exactly when some member does not
\* declare it false (a member that keeps the default counts as true); it is false
\* for the empty chain.
C8_FlagIsOrOfMembers ==
    sideEffects = (\E i \in 1..Len(decl) : Override(decl[i]) # "false")

\* C8 happens: a chain whose only member with side effects keeps the default.
C8_Witness ==
    /\ decl = <<"A", "B", "A">>
    /\ sideEffects

\* C9: every registration adds exactly one entry at the end of the registry and
\* leaves the entries before it as they were; nothing removes an entry.
C9_EveryCallAppendsOne ==
    [][/\ Len(COUNTERS_MAPS') >= Len(COUNTERS_MAPS)
       /\ regCalls' # regCalls =>
            /\ Len(COUNTERS_MAPS') = Len(COUNTERS_MAPS) + 1
            /\ SubSeq(COUNTERS_MAPS', 1, Len(COUNTERS_MAPS)) = COUNTERS_MAPS]_vars

\* C9 happens: a span, the same span again, an overlapping one and an empty one
\* are all in the registry.
C9_Witness ==
    /\ regCalls = <<[start |-> 0, stop |-> 2], [start |-> 0, stop |-> 2],
                    [start |-> 1, stop |-> 2], [start |-> 1, stop |-> 1]>>
    /\ Len(COUNTERS_MAPS) = 4

\* A u64: eight bytes.
IsU64(w) == Len(w) = 8 /\ \A i \in 1..8 : w[i] \in 0..255

\* C10: every call of hash_me yields a u64, two calls on the same input yield the
\* same output, and hash_me(0) and hash_me(1) differ in a bit of the high half.
C10_HashTotalAndSplits01 ==
    /\ \A i \in 1..Len(hashQ) : IsU64(hashQ[i].out)
    /\ (Len(hashQ) = 2 /\ hashQ[1].x = hashQ[2].x) => hashQ[1].out = hashQ[2].out
    /\ (Len(hashQ) = 2 /\ hashQ[1].x = U64(0) /\ hashQ[2].x = U64(1)) =>
            \E i \in 5..8 : hashQ[1].out[i] # hashQ[2].out[i]

\* C10 happens: hash_me(1) and then hash_me(0) were called; hash_me(1) is
\* 0x130f263125.
C10_Witness ==
    /\ Len(hashQ) = 2
    /\ hashQ[1].x = U64(0)
    /\ hashQ[2].x = U64(1)
    /\ hashQ[2].out = <<37, 49, 38, 15, 19, 0, 0, 0>>

\* C11: a lifecycle dispatch call leaves the registry as it was: every step that
\* is not a registration keeps COUNTERS_MAPS, so the registry's content follows
\* from the registrations alone.
C11_DispatchKeepsRegistry ==
    [][regCalls' = regCalls => COUNTERS_MAPS' = COUNTERS_MAPS]_vars

\* C11 happens: post_exec_all has run on a chain of two helpers with two spans
\* in the registry.
C11_Witness ==
    /\ lastOp = "post_exec_all"
    /\ Len(trace) = 2
    /\ COUNTERS_MAPS = <<[base |-> 0, len |-> 1], [base |-> 1, len |-> 1]>>

\* The exit kind after the first j helpers of declaration d have run on k.
RECURSIVE KindAfter(_, _, _)
KindAfter(d, j, k) == IF j = 0 THEN k ELSE PostExecKind(d[j], KindAfter(d, j - 1, k))

\* C12: within one post_exec_all call the helper at position j finds in exit_kind
\* the value the helpers 1..j-1 of that call left, and in the observers what they
\* wrote; the caller finds the value left by the last helper that wrote it.
C12_ExitKindThreadsThroughChain ==
    post.called =>
        /\ Len(post.seen) = Len(decl)
        /\ \A j \in 1..Len(decl) :
            /\ post.seen[j].exit_kind = KindAfter(decl, j - 1, post.given)
            /\ post.seen[j].observers = {decl[i] : i \in 1..(j - 1)}
        /\ post.left = KindAfter(decl, Len(decl), post.given)

\* C12 happens: on (A, (C, (B, ()))) with Ok, A finds Ok and leaves Crash, C finds
\* Crash and leaves Timeout, B finds Timeout, and so does the caller.
C12_Witness ==
    /\ post.called
    /\ decl = <<"A", "C", "B">>
    /\ post.given = "Ok"
    /\ post.seen = <<[exit_kind |-> "Ok", observers |-> {}],
                     [exit_kind |-> "Crash", observers |-> {"A"}],
                     [exit_kind |-> "Timeout", observers |-> {"A", "C"}]>>
    /\ post.left = "Timeout"

\* C13: the third round of hash_me is an xorshift step: the output is
\* y XOR (y >> 16), y being the word the two multiply rounds produce.
C13_ThirdRoundIsXorshift ==
    \A i \in 1..Len(hashQ) :
        LET y == MulRound(MulRound(hashQ[i].x))
        IN hashQ[i].out = Xor(y, OverflowingShr(y))

\* C14 as stated: when flush_jit runs, and from then until the next update_filter
\* call, filter() returns the filter the last update_filter call was given.
C14_FilterIsTheOneGiven ==
    lastUpdate.made => (lastUpdate.flushed = lastUpdate.given /\ filter = lastUpdate.given)

\* C14, amended: when flush_jit runs the filter in place is the one given, and it
\* stays in place until the next update_filter call or a write through
\* filter_mut().
C14_StoredBeforeFlush ==
    lastUpdate.made =>
        /\ lastUpdate.flushed = lastUpdate.given
        /\ ~lastUpdate.written => filter = lastUpdate.given

\* C14 happens: update_filter replaced another filter, and filter() and allowed()
\* were called after the flush.
C14_Witness ==
    /\ lastUpdate.made
    /\ ~lastSame
    /\ ~lastUpdate.written
    /\ lastUpdate.flushed = AllowList({1})
    /\ filter = AllowList({1})
    /\ reads = 2
    /\ answer = "false"

\* Both calls have returned.
BothReturned == \A c \in Callers : race.t[c].pc = "done"

\* The registry holds the two callers' slices, each whole, and nothing else.
BothRegistered ==
    \E c \in Callers, o \in Callers :
        /\ c # o
        /\ Registered = <<Slice(race.t[c].span.start, race.t[c].span.stop),
                          Slice(race.t[o].span.start, race.t[o].span.stop)>>

\* C15 as stated: however the steps of two registration calls interleave, both
\* spans are in COUNTERS_MAPS afterwards, each intact, and the registry has grown
\* by exactly two entries.
C15_RegistrationIsAtomic == BothReturned => BothRegistered

\* C15, amended: when the two calls do not overlap (one returns before the other
\* enters), both spans are in COUNTERS_MAPS afterwards, each intact, and the
\* registry has grown by exactly two entries.
C15_SequentialCallsBothRegistered ==
    (BothReturned /\ ~race.overlapped) => BothRegistered

\* C15 happens: two calls with different spans ran one after the other.
C15_Witness ==
    /\ BothReturned
    /\ ~race.overlapped
    /\ race.t[1].span = [start |-> 0, stop |-> 1]
    /\ race.t[2].span = [start |-> 1, stop |-> 2]
    /\ race.len = 2

\* The filter of the evaluation holds nothing: no range, or no page identifier.
EmptyFilter ==
    \/ query.in.kind = "addr" /\ query.in.ranges = <<>>
    \/ query.in.kind = "page" /\ query.in.set = {}

\* C16: for both concrete filters, AllowList(empty) allows no parameter, while
\* DenyList(empty) and None allow every parameter, the paging parameter None
\* included.
C16_EmptyAllowListAllowsNothing ==
    (query.out.done /\ EmptyFilter) =>
        (~query.out.allow /\ query.out.deny /\ query.out.none)

\* C16 happens: the empty range list was asked about an address.
C16_Witness ==
    /\ query.out.done
    /\ query.in.kind = "addr"
    /\ query.in.ranges = <<>>
    /\ query.in.addr = 2
    /\ ~query.out.allow
    /\ query.out.deny

=============================================================================
